---- MODULE Spec2Model ----
(***************************************************************************)
(* Mutual-structure filter (src/services/filters.ts): the box filter, the  *)
(* guided-filter channel solver, the 8-bit channel codec and the iterative *)
(* driver applyMutualStructureFilter with its progress callback.           *)
(*                                                                         *)
(* Numbers.  The filters' arithmetic is modelled over exact rationals      *)
(* <<num, den>> (den > 0, lowest terms); the one extra value NaN stands    *)
(* for every non-finite JavaScript number (NaN, +Infinity, -Infinity) and  *)
(* for `undefined` read from outside a typed array.  No divisor in the     *)
(* code can be non-finite while a dividend is finite (divisors are 2r+1    *)
(* and varI+eps, varI being derived from the finite guidance plane), so a  *)
(* non-finite value never turns finite again and one absorbing value is    *)
(* enough.  The codec, whose claim is about exact 8-bit round trips, is    *)
(* modelled with true IEEE-754 binary32 rounding (24-bit significands).    *)
(***************************************************************************)
EXTENDS Integers, Sequences, FiniteSets, TLC

(***************************************************************************)
(* Bounds of the model.                                                    *)
(***************************************************************************)
MaxDim == 3
MaxRadius == 3

(***************************************************************************)
(* Rational arithmetic.                                                    *)
(***************************************************************************)
Abs(n) == IF n < 0 THEN -n ELSE n
Min(a, b) == IF a < b THEN a ELSE b
Max(a, b) == IF a > b THEN a ELSE b

RECURSIVE Gcd(_, _)
Gcd(a, b) == IF b = 0 THEN a ELSE Gcd(b, a % b)

NaN == <<0, 0>>
IsFinite(a) == a[2] # 0

Norm(n, d) ==
  IF d = 0 THEN NaN
  ELSE LET g == Gcd(Abs(n), Abs(d))
           s == IF d < 0 THEN -1 ELSE 1
       IN  <<s * (n \div g), s * (d \div g)>>

Rat(n, d) == Norm(n, d)
Zero == <<0, 1>>
One == <<1, 1>>

RAdd(a, b) ==
  IF ~IsFinite(a) \/ ~IsFinite(b) THEN NaN
  ELSE LET g == Gcd(a[2], b[2])
       IN  Norm(a[1] * (b[2] \div g) + b[1] * (a[2] \div g), (a[2] \div g) * b[2])

RNeg(a) == IF IsFinite(a) THEN <<-a[1], a[2]>> ELSE NaN
RSub(a, b) == RAdd(a, RNeg(b))

RMul(a, b) ==
  IF ~IsFinite(a) \/ ~IsFinite(b) THEN NaN
  ELSE LET g1 == Gcd(Abs(a[1]), b[2])
           g2 == Gcd(Abs(b[1]), a[2])
       IN  <<(a[1] \div g1) * (b[1] \div g2), (a[2] \div g2) * (b[2] \div g1)>>

\* x / y of JavaScript numbers: a zero divisor gives NaN or +-Infinity.
RDiv(a, b) ==
  IF ~IsFinite(a) \/ ~IsFinite(b) \/ b[1] = 0 THEN NaN
  ELSE LET s == IF b[1] < 0 THEN -1 ELSE 1
       IN  RMul(a, <<s * b[2], s * b[1]>>)

RLess(a, b) == IsFinite(a) /\ IsFinite(b) /\ a[1] * b[2] < b[1] * a[2]
RLeq(a, b) == IsFinite(a) /\ IsFinite(b) /\ a[1] * b[2] <= b[1] * a[2]

(***************************************************************************)
(* Typed arrays are sequences (element i of the code is element i + 1); a  *)
(* read outside the array yields undefined, which is NaN in arithmetic.    *)
(***************************************************************************)
At(arr, i) == IF i >= 0 /\ i < Len(arr) THEN arr[i + 1] ELSE NaN
\* The array a loop has filled element by element, as a sequence.
ArrayOf(f) == f \o <<>>

(***************************************************************************)
(* boxFilter: two-pass sliding-sum box filter with clamped window.  Each   *)
(* pass keeps a running sum per row (column): the sum of the initial       *)
(* window, then for every step the entering sample added and the leaving   *)
(* sample subtracted.                                                      *)
(***************************************************************************)
\* Mutant of HInit: the initial window loop stops one sample early (x < r).
RECURSIVE HInitShort(_, _, _, _, _)
HInitShort(data, offset, width, r, x) ==
  IF x >= r THEN Zero
  ELSE RAdd(At(data, offset + Min(Max(x, 0), width - 1)),
            HInitShort(data, offset, width, r, x + 1))

\* filters.ts:15-19, the initial window of the row at `offset`, summed from x to r
RECURSIVE HInit(_, _, _, _, _)
HInit(data, offset, width, r, x) ==
  IF x > r THEN Zero
  ELSE RAdd(At(data, offset + Min(Max(x, 0), width - 1)),
            HInit(data, offset, width, r, x + 1))

\* Mutant of HSum: the leaving sample is taken one column too far left.
RECURSIVE HSumLate(_, _, _, _, _)
HSumLate(data, offset, width, r, x) ==
  IF x = 0 THEN HInit(data, offset, width, r, -r)
  ELSE LET nextX == (x - 1) + r + 1
           prevX == (x - 1) - r - 1
       IN  RAdd(HSumLate(data, offset, width, r, x - 1),
                RSub(At(data, offset + Min(nextX, width - 1)),
                     At(data, offset + Max(prevX, 0))))

\* filters.ts:20-25, the running sum of the row when column x is written:
\* the sum at column x - 1 updated by line 24
RECURSIVE HSum(_, _, _, _, _)
HSum(data, offset, width, r, x) ==
  IF x = 0 THEN HInit(data, offset, width, r, -r)
  ELSE LET nextX == (x - 1) + r + 1
           prevX == (x - 1) - r
       IN  RAdd(HSum(data, offset, width, r, x - 1),
                RSub(At(data, offset + Min(nextX, width - 1)),
                     At(data, offset + Max(prevX, 0))))

\* filters.ts:13-26, the horizontal pass: dest after the loops
HPass(data, width, height, r) ==
  ArrayOf([i \in 1..Len(data) |->
             IF i <= width * height
             THEN RDiv(HSum(data, ((i - 1) \div width) * width, width, r, (i - 1) % width),
                       Rat(2 * r + 1, 1))
             ELSE Zero])

\* Mutant of VInit: the initial window is not clamped to the image's rows.
RECURSIVE VInitUnclamped(_, _, _, _, _, _)
VInitUnclamped(dest, x, width, height, r, y) ==
  IF y > r THEN Zero
  ELSE RAdd(At(dest, y * width + x),
            VInitUnclamped(dest, x, width, height, r, y + 1))

\* filters.ts:30-34, the initial window of column x, summed from y to r
RECURSIVE VInit(_, _, _, _, _, _)
VInit(dest, x, width, height, r, y) ==
  IF y > r THEN Zero
  ELSE RAdd(At(dest, Min(Max(y, 0), height - 1) * width + x),
            VInit(dest, x, width, height, r, y + 1))

\* Mutant of VSum: the entering sample is not clamped to the last row.
RECURSIVE VSumUnclamped(_, _, _, _, _, _)
VSumUnclamped(dest, x, width, height, r, y) ==
  IF y = 0 THEN VInit(dest, x, width, height, r, -r)
  ELSE LET nextY == (y - 1) + r + 1
           prevY == (y - 1) - r
       IN  RAdd(VSumUnclamped(dest, x, width, height, r, y - 1),
                RSub(At(dest, nextY * width + x),
                     At(dest, Max(prevY, 0) * width + x)))

\* filters.ts:35-40, the running sum of column x when row y is written
RECURSIVE VSum(_, _, _, _, _, _)
VSum(dest, x, width, height, r, y) ==
  IF y = 0 THEN VInit(dest, x, width, height, r, -r)
  ELSE LET nextY == (y - 1) + r + 1
           prevY == (y - 1) - r
       IN  RAdd(VSum(dest, x, width, height, r, y - 1),
                RSub(At(dest, Min(nextY, height - 1) * width + x),
                     At(dest, Max(prevY, 0) * width + x)))

\* filters.ts:29-41, the vertical pass: temp after the loops
VPass(dest, width, height, r) ==
  ArrayOf([i \in 1..Len(dest) |->
             IF i <= width * height
             THEN RDiv(VSum(dest, (i - 1) % width, width, height, r, (i - 1) \div width),
                       Rat(2 * r + 1, 1))
             ELSE Zero])

\* filters.ts:7-44
boxFilter(data, width, height, r) ==
  VPass(HPass(data, width, height, r), width, height, r)

(***************************************************************************)
(* guidedFilterChannel: local affine model of P from the guidance I.       *)
(***************************************************************************)
\* Mutant of GuidedCoefficients: the covariance keeps the raw mean of I*P
\* (the subtraction of meanI*meanP in line 72 is missing).
GuidedCoefficientsRawCov(P, I, width, height, r, eps) ==
  LET meanI == boxFilter(I, width, height, r)
      meanP == boxFilter(P, width, height, r)
      II == ArrayOf([i \in 1..Len(I) |-> RMul(I[i], I[i])])
      IP == ArrayOf([i \in 1..Len(I) |-> RMul(I[i], At(P, i - 1))])
      meanII == boxFilter(II, width, height, r)
      meanIP == boxFilter(IP, width, height, r)
      varI == ArrayOf([i \in 1..Len(I) |-> RSub(meanII[i], RMul(meanI[i], meanI[i]))])
      a == ArrayOf([i \in 1..Len(I) |-> RDiv(meanIP[i], RAdd(varI[i], eps))])
      b == ArrayOf([i \in 1..Len(I) |-> RSub(At(meanP, i - 1), RMul(a[i], meanI[i]))])
  IN  [a |-> a, b |-> b]

\* filters.ts:57-80: the local means, the variance and covariance (after the
\* in-place subtraction of lines 70-73) and the regression coefficients a, b
GuidedCoefficients(P, I, width, height, r, eps) ==
  LET meanI == boxFilter(I, width, height, r)
      meanP == boxFilter(P, width, height, r)
      II == ArrayOf([i \in 1..Len(I) |-> RMul(I[i], I[i])])
      IP == ArrayOf([i \in 1..Len(I) |-> RMul(I[i], At(P, i - 1))])
      meanII == boxFilter(II, width, height, r)
      meanIP == boxFilter(IP, width, height, r)
      varI == ArrayOf([i \in 1..Len(I) |-> RSub(meanII[i], RMul(meanI[i], meanI[i]))])
      covIP == ArrayOf([i \in 1..Len(I) |-> RSub(meanIP[i], RMul(meanI[i], At(meanP, i - 1)))])
      a == ArrayOf([i \in 1..Len(I) |-> RDiv(covIP[i], RAdd(varI[i], eps))])
      b == ArrayOf([i \in 1..Len(I) |-> RSub(At(meanP, i - 1), RMul(a[i], meanI[i]))])
  IN  [a |-> a, b |-> b]

\* filters.ts:49-91
guidedFilterChannel(P, I, width, height, r, eps) ==
  LET c == GuidedCoefficients(P, I, width, height, r, eps)
      meanA == boxFilter(c.a, width, height, r)
      meanB == boxFilter(c.b, width, height, r)
  IN  ArrayOf([i \in 1..Len(I) |-> RAdd(RMul(meanA[i], I[i]), meanB[i])])

(***************************************************************************)
(* Channel codec.  A binary32 sample is <<m, e>>, the number m / 2^e with  *)
(* |m| < 2^24; a raster is [width, height, data], data the interleaved     *)
(* RGBA bytes.                                                             *)
(***************************************************************************)
Pow2(k) == 2 ^ k

F32Zero == <<0, 0>>

\* Long division of v by 255 until the quotient has 24 significant bits,
\* then round to nearest (2*rem = 255 cannot happen, so there are no ties).
RECURSIVE F32Quot(_, _, _)
F32Quot(q, rem, e) ==
  IF q >= Pow2(23)
  THEN IF 2 * rem > 255
       THEN (IF q + 1 = Pow2(24) THEN <<Pow2(23), e - 1>> ELSE <<q + 1, e>>)
       ELSE <<q, e>>
  ELSE F32Quot(2 * q + (IF 2 * rem >= 255 THEN 1 ELSE 0), (2 * rem) % 255, e + 1)

\* Mutant of ByteToFloat: the byte is divided by 256 instead of 255.
ByteToFloat256(v) == <<v, 8>>

\* filters.ts:101-103: data[k] / 255 stored into a Float32Array.  The
\* quotient is formed in binary64 and rounded again to binary32; the binary
\* expansion of v/255 repeats with period 8, so the binary64 value never
\* lies on a binary32 rounding boundary and the result is the correctly
\* rounded binary32 quotient.
ByteToFloat(v) == IF v = 0 THEN F32Zero ELSE F32Quot(v \div 255, v % 255, 0)

extractRGB(imageData) ==
  LET size == imageData.width * imageData.height
      data == imageData.data
  IN  [r |-> [i \in 1..size |-> ByteToFloat(data[(i - 1) * 4 + 1])],
       g |-> [i \in 1..size |-> ByteToFloat(data[(i - 1) * 4 + 2])],
       b |-> [i \in 1..size |-> ByteToFloat(data[(i - 1) * 4 + 3])],
       width |-> imageData.width, height |-> imageData.height]

\* Store of a number in 0..255 given as n / 2^k into a Uint8ClampedArray:
\* round to nearest, ties to even (ToUint8Clamp).
RoundHalfEven(q, rem, half) ==
  IF rem > half \/ (rem = half /\ q % 2 = 1) THEN q + 1 ELSE q

\* filters.ts:115-117: Math.min(255, Math.max(0, x * 255)) stored into a
\* Uint8ClampedArray.  x * 255 is exact in binary64 (a 24-bit by an 8-bit
\* significand).  m * 255 / 2^e is evaluated in two limbs to stay within
\* 32-bit integers.
FloatToByte(x) ==
  LET m == x[1]
      e == x[2]
  IN  IF m <= 0 THEN 0
      ELSE IF e <= 24 /\ m >= Pow2(e) THEN 255
      ELSE IF e < 8
           THEN RoundHalfEven((m * 255) \div Pow2(e), 2 * ((m * 255) % Pow2(e)), Pow2(e))
           ELSE LET c == (m % 256) * 255
                    n1 == (m \div 256) * 255 + (c \div 256)
                    t == Pow2(e - 8)
                    rem == (n1 % t) * 256 + (c % 256)
                IN  RoundHalfEven(n1 \div t, rem, Pow2(e - 1))

combineRGB(rgb) ==
  LET size == rgb.width * rgb.height
  IN  [width |-> rgb.width, height |-> rgb.height,
       data |-> [k \in 1..(size * 4) |->
                   LET i == (k - 1) \div 4
                       c == (k - 1) % 4
                   IN  IF c = 0 THEN FloatToByte(rgb.r[i + 1])
                       ELSE IF c = 1 THEN FloatToByte(rgb.g[i + 1])
                       ELSE IF c = 2 THEN FloatToByte(rgb.b[i + 1])
                       ELSE 255]]

(***************************************************************************)
(* State.                                                                  *)
(*   call, ret, phase : one invocation of a pure function of the module    *)
(*                      (boxFilter, guidedFilterChannel, the codec)        *)
(*   pc .. error      : the applyMutualStructureFilter runs, by run id:    *)
(*     pc          "idle" (not called), "timer" (pending, suspended at the *)
(*                 await of line 145), "fulfilled" or "rejected"           *)
(*     args        the call's target, guidance and params                  *)
(*     current     the working planes currentR, currentG, currentB         *)
(*     grayI, iter the grayscale guidance plane and the loop counter       *)
(*     progressLog the values passed to onProgress, in order               *)
(*     trace       the onProgress and guidedFilterChannel calls, in order  *)
(*     result      the value the promise is fulfilled with                 *)
(*     error       the reason the promise is rejected with                 *)
(*   app              : the state of the App component (its useState       *)
(*                      cells) and, in resultFrom, the images the stored   *)
(*                      result was computed from                           *)
(*   handlers         : the handleProcess invocations, by invocation id;   *)
(*                      invocation h makes run h.  pc is "idle" (not       *)
(*                      invoked), "loading" (await of line 44),            *)
(*                      "filtering" (await of line 69), "explaining"       *)
(*                      (await of line 82), "done" or "failed" (the catch  *)
(*                      of line 91); the images and params are the ones    *)
(*                      the invocation's closure holds                     *)
(***************************************************************************)
VARIABLES call, ret, phase,
          pc, args, current, grayI, iter, progressLog, trace, result, error,
          app, handlers

vars == <<call, ret, phase, pc, args, current, grayI, iter, progressLog, trace, result, error,
          app, handlers>>
fnVars == <<call, ret, phase>>
runVars == <<pc, args, current, grayI, iter, progressLog, trace, result, error>>
appVars == <<app, handlers>>

Runs == {1, 2}
None == <<>>

NoCall == /\ call = None
          /\ ret = None
          /\ phase = "idle"

NoRuns == /\ pc = [r \in Runs |-> "idle"]
          /\ args = [r \in Runs |-> None]
          /\ current = [r \in Runs |-> None]
          /\ grayI = [r \in Runs |-> None]
          /\ iter = [r \in Runs |-> 0]
          /\ progressLog = [r \in Runs |-> <<>>]
          /\ trace = [r \in Runs |-> <<>>]
          /\ result = [r \in Runs |-> None]
          /\ error = [r \in Runs |-> "none"]

\* App.tsx:10-24: the component's initial state; null is None, the error
\* null is NoError.
NoError == "null"
DefaultParams == [radius |-> 4, epsilon |-> Rat(1, 200), iterations |-> 3, weight |-> 1]
IdleStatus == [isProcessing |-> FALSE, progress |-> Zero, error |-> NoError]
NoHandler == [pc |-> "idle", targetImage |-> None, guidanceImage |-> None,
              params |-> None, explanation |-> "none"]

AppMounted ==
  /\ app = [targetImage |-> None, guidanceImage |-> None, resultImage |-> None,
            resultFrom |-> None, params |-> DefaultParams, status |-> IdleStatus,
            aiExplanation |-> None]
  /\ handlers = [h \in Runs |-> NoHandler]

(***************************************************************************)
(* Input planes: constant planes, single-sample planes on a flat           *)
(* background, and a ramp.                                                 *)
(***************************************************************************)
Samples == {Zero, One, Rat(1, 2), Rat(-3, 4)}

ConstantPlane(n, c) == [i \in 1..n |-> c]
ImpulsePlane(n, p, v, bg) == [i \in 1..n |-> IF i = p THEN v ELSE bg]
RampPlane(n) == [i \in 1..n |-> Rat(i - 1, 2)]

PlaneInputs(n) ==
  {ConstantPlane(n, c) : c \in Samples}
    \cup {ImpulsePlane(n, p, v, bg) : p \in 1..n, v \in Samples \ {Zero}, bg \in {Zero, Rat(1, 2)}}
    \cup {RampPlane(n)}

Dims == 1..MaxDim
Radii == 0..MaxRadius

(***************************************************************************)
(* SpecBox: boxFilter applied to one input.                                *)
(***************************************************************************)
InitBox ==
  /\ NoRuns
  /\ AppMounted
  /\ ret = None
  /\ phase = "called"
  /\ \E w \in Dims, h \in Dims, r \in Radii :
       \E data \in PlaneInputs(w * h) :
          call = [fn |-> "boxFilter", data |-> data, width |-> w, height |-> h, r |-> r]

BoxApply ==
  /\ phase = "called"
  /\ call.fn = "boxFilter"
  /\ ret' = boxFilter(call.data, call.width, call.height, call.r)
  /\ phase' = "returned"
  /\ UNCHANGED <<call, runVars, appVars>>

NextBox == BoxApply
SpecBox == InitBox /\ [][NextBox]_vars

(***************************************************************************)
(* Claims about boxFilter (checked under SpecBox).                         *)
(***************************************************************************)
Clamp(v, lo, hi) == Min(Max(v, lo), hi)

RECURSIVE SumSeq(_)
SumSeq(q) == IF q = <<>> THEN Zero ELSE RAdd(Head(q), SumSeq(Tail(q)))

\* The reference box mean at pixel (x, y): every one of the (2r+1)^2 window
\* positions clamped on its own, the divisor always (2r+1)^2.
WindowMean(data, width, height, r, x, y) ==
  LET k == 2 * r + 1
      win == [j \in 1..(k * k) |->
                LET dx == ((j - 1) % k) - r
                    dy == ((j - 1) \div k) - r
                IN  data[Clamp(y + dy, 0, height - 1) * width
                         + Clamp(x + dx, 0, width - 1) + 1]]
  IN  RDiv(SumSeq(win), Rat(k * k, 1))

BoxReturned == phase = "returned" /\ call.fn = "boxFilter"
IsConstant(plane) == \A i \in 1..Len(plane) : plane[i] = plane[1]

C7_ConstantPreserved ==
  (BoxReturned /\ IsConstant(call.data)) => ret = call.data

C7_Witness ==
  /\ BoxReturned /\ IsConstant(call.data)
  /\ call.data[1] # Zero
  /\ call.r >= 1 /\ call.width >= 2 /\ call.height >= 2
  /\ ret = call.data

\* The pixels (zero-based indices) that hold a non-zero sample.
NonZero(plane) == {i \in 0..(Len(plane) - 1) : plane[i + 1] # Zero}

IsCornerImpulse ==
  /\ Cardinality(NonZero(call.data)) = 1
  /\ LET p == CHOOSE i \in NonZero(call.data) : TRUE
     IN  /\ p % call.width \in {0, call.width - 1}
         /\ p \div call.width \in {0, call.height - 1}

\* How many of the (2r+1)^2 clamped window positions of pixel (x, y) fall on
\* the pixel (cx, cy).
WindowHits(width, height, r, x, y, cx, cy) ==
  Cardinality({d \in (-r..r) \X (-r..r) :
                 /\ Clamp(x + d[1], 0, width - 1) = cx
                 /\ Clamp(y + d[2], 0, height - 1) = cy})

\* C8: for a single non-zero sample at a corner, the result is non-zero
\* exactly at the pixels within r rows and r columns of that corner, and each
\* window position that lands on the corner contributes the sample weighted
\* 1/(2r+1)^2.
C8_CornerFootprint ==
  (BoxReturned /\ IsCornerImpulse) =>
    LET p == CHOOSE i \in NonZero(call.data) : TRUE
        cx == p % call.width
        cy == p \div call.width
        k == 2 * call.r + 1
    IN  \A x \in 0..(call.width - 1), y \in 0..(call.height - 1) :
          LET out == ret[y * call.width + x + 1]
          IN  /\ (out # Zero) <=> (Abs(x - cx) <= call.r /\ Abs(y - cy) <= call.r)
              /\ out = RMul(Rat(WindowHits(call.width, call.height, call.r, x, y, cx, cy), k * k),
                            call.data[p + 1])

C8_Witness ==
  /\ BoxReturned /\ IsCornerImpulse
  /\ call.width = 3 /\ call.height = 3 /\ call.r = 1
  /\ call.data[9] # Zero
  /\ Cardinality(NonZero(ret)) = 4

(***************************************************************************)
(* SpecCodec: extractRGB, then combineRGB, on one raster.                  *)
(***************************************************************************)
\* One pixel per byte value v: every channel runs through all of 0..255.
SweepPixel(v) == <<v, (7 * v + 3) % 256, 255 - v, (3 * v) % 256>>
BackgroundPixels == {<<0, 0, 0, 0>>, <<255, 128, 1, 254>>}

\* The raster whose pixel p (one-based) is px, every other pixel bg.
Raster(w, h, p, px, bg) ==
  [width |-> w, height |-> h,
   data |-> [k \in 1..(w * h * 4) |->
               IF (k - 1) \div 4 = p - 1 THEN px[((k - 1) % 4) + 1]
               ELSE bg[((k - 1) % 4) + 1]]]

InitCodec ==
  /\ NoRuns
  /\ AppMounted
  /\ ret = None
  /\ phase = "called"
  /\ \E w \in Dims, h \in Dims, v \in 0..255, bg \in BackgroundPixels :
       \E p \in {1, w * h} :
          call = [fn |-> "codec", imageData |-> Raster(w, h, p, SweepPixel(v), bg)]

Extract ==
  /\ phase = "called"
  /\ call.fn = "codec"
  /\ ret' = extractRGB(call.imageData)
  /\ phase' = "extracted"
  /\ UNCHANGED <<call, runVars, appVars>>

Combine ==
  /\ phase = "extracted"
  /\ ret' = combineRGB(ret)
  /\ phase' = "returned"
  /\ UNCHANGED <<call, runVars, appVars>>

NextCodec == Extract \/ Combine
SpecCodec == InitCodec /\ [][NextCodec]_vars

\* C9: combineRGB(extractRGB(raster)) keeps width and height, reproduces the
\* R, G and B byte of every pixel, and sets every alpha byte to 255.
C9_CodecRoundTrip ==
  (phase = "returned" /\ call.fn = "codec") =>
    LET in == call.imageData
    IN  /\ ret.width = in.width
        /\ ret.height = in.height
        /\ Len(ret.data) = in.width * in.height * 4
        /\ \A k \in 1..Len(ret.data) :
             ret.data[k] = IF (k - 1) % 4 = 3 THEN 255 ELSE in.data[k]

C9_Witness ==
  /\ phase = "returned" /\ call.fn = "codec"
  /\ call.imageData.width >= 2 /\ call.imageData.height >= 2
  /\ call.imageData.data[13] = 1           \* R of the last pixel
  /\ call.imageData.data[16] = 3           \* its alpha is not opaque
  /\ ret.data[13] = 1 /\ ret.data[16] = 255

(***************************************************************************)
(* SpecGuided: guidedFilterChannel applied to one input.                   *)
(***************************************************************************)
\* Guidance planes.  Non-constant guidance makes the per-pixel divisors
\* varI + eps differ, and the exact fractions outgrow the checker's 32-bit
\* integers beyond radius 1, so it is drawn at radii 0 and 1 only.
GuidanceInputs(n, r) ==
  {ConstantPlane(n, c) : c \in {Zero, One, Rat(-3, 4)}}
    \cup (IF r <= 1 THEN {ImpulsePlane(n, n, One, Zero)} ELSE {})

FilterInputs(n) ==
  {ConstantPlane(n, Rat(1, 2)), RampPlane(n),
   ImpulsePlane(n, 1, One, Zero), ImpulsePlane(n, n, One, Rat(1, 2))}

EpsInputs == {Rat(1, 4), One}

InitGuided ==
  /\ NoRuns
  /\ AppMounted
  /\ ret = None
  /\ phase = "called"
  /\ \E w \in Dims, h \in Dims, r \in Radii, eps \in EpsInputs :
       \E P \in FilterInputs(w * h), I \in GuidanceInputs(w * h, r) :
          call = [fn |-> "guidedFilterChannel", P |-> P, I |-> I,
                  width |-> w, height |-> h, r |-> r, eps |-> eps]

\* ret keeps the coefficient plane a beside the returned plane q.
GuidedApply ==
  /\ phase = "called"
  /\ call.fn = "guidedFilterChannel"
  /\ ret' = [q |-> guidedFilterChannel(call.P, call.I, call.width, call.height, call.r, call.eps),
             a |-> GuidedCoefficients(call.P, call.I, call.width, call.height, call.r, call.eps).a]
  /\ phase' = "returned"
  /\ UNCHANGED <<call, runVars, appVars>>

NextGuided == GuidedApply
SpecGuided == InitGuided /\ [][NextGuided]_vars

GuidedReturned == phase = "returned" /\ call.fn = "guidedFilterChannel"

Grayscale(guidance, width, height) ==
  ArrayOf([i \in 1..(width * height) |->
             RAdd(RAdd(RMul(Rat(299, 1000), At(guidance.r, i - 1)),
                       RMul(Rat(587, 1000), At(guidance.g, i - 1))),
                  RMul(Rat(114, 1000), At(guidance.b, i - 1)))])

\* Mutant of ProgressValue: the report counts the iteration as already done.
ProgressValueDone(k, iterations) ==
  RMul(RDiv(Rat(k + 1, 1), Rat(iterations, 1)), Rat(100, 1))

\* filters.ts:144, (iter / iterations) * 100
ProgressValue(k, iterations) ==
  RMul(RDiv(Rat(k, 1), Rat(iterations, 1)), Rat(100, 1))

Hundred == Rat(100, 1)

ProgressEvent(k, p) == [ev |-> "onProgress", iter |-> k, ch |-> "-", p |-> p]
FilterEvent(k, ch) == [ev |-> "guidedFilterChannel", iter |-> k, ch |-> ch, p |-> None]

\* filters.ts:143-144 and 155: what the loop head reports with counter k
HeadEvents(k, iterations) ==
  IF k < iterations THEN <<ProgressEvent(k, ProgressValue(k, iterations))>>
  ELSE <<ProgressEvent(k, Hundred)>>

\* filters.ts:150-152: the three filter calls of iteration k
ComputeEvents(k) == <<FilterEvent(k, "r"), FilterEvent(k, "g"), FilterEvent(k, "b")>>

\* Mutant of TimerEvents: the next report is made before the filter calls.
TimerEventsReportFirst(k, iterations) == HeadEvents(k + 1, iterations) \o ComputeEvents(k)

\* filters.ts:150-155: the calls made between two awaits, iteration k's
\* filter calls and then the report of the next loop head
TimerEvents(k, iterations) == ComputeEvents(k) \o HeadEvents(k + 1, iterations)

\* Mutant of LoopHead: the loop condition is iter < iterations - 1.
LoopHeadOneShort(r, k, cur, events) ==
  LET prm == args'[r].params
      tgt == args'[r].target
  IN  /\ iter' = [iter EXCEPT ![r] = k]
      /\ current' = [current EXCEPT ![r] = cur]
      /\ trace' = [trace EXCEPT ![r] = @ \o events]
      /\ IF k < prm.iterations - 1
         THEN /\ progressLog' = [progressLog EXCEPT ![r] = Append(@, ProgressValue(k, prm.iterations))]
              /\ pc' = [pc EXCEPT ![r] = "timer"]
              /\ result' = result
         ELSE /\ progressLog' = [progressLog EXCEPT ![r] = Append(@, Hundred)]
              /\ pc' = [pc EXCEPT ![r] = "fulfilled"]
              /\ result' = [result EXCEPT ![r] =
                              [r |-> cur.r, g |-> cur.g, b |-> cur.b,
                               width |-> tgt.width, height |-> tgt.height]]

\* filters.ts:143-146 and 155-156: the loop head reached with counter k and
\* working planes cur; events are the calls made since the last await.
LoopHead(r, k, cur, events) ==
  LET prm == args'[r].params
      tgt == args'[r].target
  IN  /\ iter' = [iter EXCEPT ![r] = k]
      /\ current' = [current EXCEPT ![r] = cur]
      /\ trace' = [trace EXCEPT ![r] = @ \o events]
      /\ IF k < prm.iterations
         THEN /\ progressLog' = [progressLog EXCEPT ![r] = Append(@, ProgressValue(k, prm.iterations))]
              /\ pc' = [pc EXCEPT ![r] = "timer"]
              /\ result' = result
         ELSE /\ progressLog' = [progressLog EXCEPT ![r] = Append(@, Hundred)]
              /\ pc' = [pc EXCEPT ![r] = "fulfilled"]
              /\ result' = [result EXCEPT ![r] =
                              [r |-> cur.r, g |-> cur.g, b |-> cur.b,
                               width |-> tgt.width, height |-> tgt.height]]

\* filters.ts:124-146: the call; no parameter and no dimension is checked.
Call(r, target, guidance, params) ==
  /\ pc[r] = "idle"
  /\ args' = [args EXCEPT ![r] = [target |-> target, guidance |-> guidance, params |-> params]]
  /\ grayI' = [grayI EXCEPT ![r] = Grayscale(guidance, target.width, target.height)]
  /\ LoopHead(r, 0, [r |-> target.r, g |-> target.g, b |-> target.b],
              HeadEvents(0, params.iterations))
  /\ UNCHANGED <<error, fnVars>>

\* Mutant of TimerFire: the guidance plane is one buffer shared by all runs
\* (the one the first run derived) instead of a local of each run.
TimerFireSharedGuidance(r) ==
  /\ pc[r] = "timer"
  /\ args' = args
  /\ LET tgt == args[r].target
         prm == args[r].params
         cur == [r |-> guidedFilterChannel(current[r].r, grayI[1], tgt.width, tgt.height,
                                           prm.radius, prm.epsilon),
                 g |-> guidedFilterChannel(current[r].g, grayI[1], tgt.width, tgt.height,
                                           prm.radius, prm.epsilon),
                 b |-> guidedFilterChannel(current[r].b, grayI[1], tgt.width, tgt.height,
                                           prm.radius, prm.epsilon)]
     IN  LoopHead(r, iter[r] + 1, cur, TimerEvents(iter[r], prm.iterations))
  /\ UNCHANGED <<grayI, error, fnVars>>

\* Mutant of TimerFire: the green working plane is filtered from the red
\* one instead of from its own previous value.
TimerFireCrossChannel(r) ==
  /\ pc[r] = "timer"
  /\ args' = args
  /\ LET tgt == args[r].target
         prm == args[r].params
         cur == [r |-> guidedFilterChannel(current[r].r, grayI[r], tgt.width, tgt.height,
                                           prm.radius, prm.epsilon),
                 g |-> guidedFilterChannel(current[r].r, grayI[r], tgt.width, tgt.height,
                                           prm.radius, prm.epsilon),
                 b |-> guidedFilterChannel(current[r].b, grayI[r], tgt.width, tgt.height,
                                           prm.radius, prm.epsilon)]
     IN  LoopHead(r, iter[r] + 1, cur, TimerEvents(iter[r], prm.iterations))
  /\ UNCHANGED <<grayI, error, fnVars>>

\* filters.ts:145-156: the timer of line 145 fires and the run resumes.
TimerFire(r) ==
  /\ pc[r] = "timer"
  /\ args' = args
  /\ LET tgt == args[r].target
         prm == args[r].params
         cur == [r |-> guidedFilterChannel(current[r].r, grayI[r], tgt.width, tgt.height,
                                           prm.radius, prm.epsilon),
                 g |-> guidedFilterChannel(current[r].g, grayI[r], tgt.width, tgt.height,
                                           prm.radius, prm.epsilon),
                 b |-> guidedFilterChannel(current[r].b, grayI[r], tgt.width, tgt.height,
                                           prm.radius, prm.epsilon)]
     IN  LoopHead(r, iter[r] + 1, cur, TimerEvents(iter[r], prm.iterations))
  /\ UNCHANGED <<grayI, error, fnVars>>

(***************************************************************************)
(* Spec: one run on inputs drawn from small sets.                          *)
(***************************************************************************)
MaxImage == 2
MaxIterations == 3

ImageDims == 1..MaxImage

Image(w, h, r, g, b) == [r |-> r, g |-> g, b |-> b, width |-> w, height |-> h]

\* A target whose three channels differ: a ramp, a flat plane, one bright sample.
TargetImage(w, h) ==
  Image(w, h, RampPlane(w * h), ConstantPlane(w * h, Rat(1, 2)),
        ImpulsePlane(w * h, 1, One, Zero))

\* Vertical stripes: the sample at column x is x mod 2.
StripePlane(w, h) == [i \in 1..(w * h) |-> Rat(((i - 1) % w) % 2, 1)]

FlatGuidance(w, h) ==
  Image(w, h, ConstantPlane(w * h, One), ConstantPlane(w * h, One), ConstantPlane(w * h, One))

StripedGuidance(w, h) ==
  Image(w, h, StripePlane(w, h), StripePlane(w, h), StripePlane(w, h))

\* The guidance handed in with a target of w x h: of the same size (flat or
\* striped), or smaller, or wider than the target.
GuidanceFor(w, h) ==
  {FlatGuidance(w, h), StripedGuidance(w, h), FlatGuidance(1, 1), FlatGuidance(w + 1, h)}

InvalidParameter(prm) ==
  \/ prm.iterations < 1
  \/ ~RLess(Zero, prm.epsilon)
  \/ prm.radius < 0

DimensionMismatch(target, guidance) ==
  target.width # guidance.width \/ target.height # guidance.height

\* Valid parameter sets, and sets with one invalid parameter.  Exact
\* fractions grow with every iteration at radius 1 (each box pass divides by
\* 3 twice), fastest when the divisor varI + eps is not 1: eps = 7/9 makes it
\* 1 under striped guidance at radius 1; runs at radius 1 make at most three
\* iterations, and runs with an invalid radius or epsilon at most two.
ValidEpsilon == Rat(7, 9)
ParamInputs ==
  [radius : {0}, epsilon : {ValidEpsilon}, iterations : 0..MaxIterations]
    \cup [radius : {1}, epsilon : {ValidEpsilon}, iterations : 0..Min(MaxIterations, 3)]
    \cup [radius : {0, 1}, epsilon : {Zero, Rat(-1, 1)}, iterations : {1, 2}]
    \cup [radius : {-1}, epsilon : {ValidEpsilon}, iterations : {1, 2}]

Init == NoCall /\ NoRuns /\ AppMounted

\* The runs that Spec starts.
SingleRun == {1}

Start ==
  \E r \in SingleRun :
    /\ pc[r] = "idle"
    /\ \E w \in ImageDims, h \in ImageDims, prm \in ParamInputs :
         \E guidance \in GuidanceFor(w, h) :
            Call(r, TargetImage(w, h), guidance, prm)
    /\ UNCHANGED appVars

Resume == \E r \in SingleRun : TimerFire(r) /\ UNCHANGED appVars

Next == Start \/ Resume
Spec == Init /\ [][Next]_vars

(***************************************************************************)
(* Claims about applyMutualStructureFilter (checked under Spec).           *)
(***************************************************************************)
Started(r) == pc[r] # "idle"
IsProgress(e) == e.ev = "onProgress"
IsFilter(e) == e.ev = "guidedFilterChannel"

\* C1: in a run with iterations = N >= 1 the values passed to onProgress are
\* non-decreasing and within [0, 100] and start at 0; 100 is passed only as
\* the last value of a finished run, which has passed at least N + 1 values.
C1_ProgressSequence ==
  \A r \in Runs :
    (Started(r) /\ args[r].params.iterations >= 1) =>
      LET log == progressLog[r]
          n == args[r].params.iterations
      IN  /\ Len(log) >= 1
          /\ log[1] = Zero
          /\ \A i \in 1..Len(log) : RLeq(Zero, log[i]) /\ RLeq(log[i], Hundred)
          /\ \A i \in 1..(Len(log) - 1) : RLeq(log[i], log[i + 1])
          /\ \A i \in 1..Len(log) : log[i] = Hundred => (i = Len(log) /\ pc[r] = "fulfilled")
          /\ pc[r] = "fulfilled" => (Len(log) >= n + 1 /\ log[Len(log)] = Hundred)

C1_Witness ==
  \E r \in Runs :
    /\ pc[r] = "fulfilled"
    /\ args[r].params.iterations = 3
    /\ progressLog[r] = <<Zero, Rat(100, 3), Rat(200, 3), Hundred>>

\* C2: a call with an invalid parameter (iterations < 1, epsilon <= 0 or
\* radius < 0) is rejected with InvalidParameter, reports no progress and
\* produces no result.
C2_InvalidParameterRejected ==
  \A r \in Runs :
    (Started(r) /\ InvalidParameter(args[r].params)) =>
      /\ pc[r] = "rejected"
      /\ error[r] = "InvalidParameter"
      /\ progressLog[r] = <<>>
      /\ result[r] = None

\* C3: a call whose target and guidance differ in width or height is
\* rejected with DimensionMismatch before any filter call, progress report
\* or result.
C3_DimensionMismatchRejected ==
  \A r \in Runs :
    (Started(r) /\ DimensionMismatch(args[r].target, args[r].guidance)) =>
      /\ pc[r] = "rejected"
      /\ error[r] = "DimensionMismatch"
      /\ trace[r] = <<>>
      /\ progressLog[r] = <<>>
      /\ result[r] = None

\* C4: the report k/iterations*100 of iteration k comes right before the
\* three filter calls of iteration k, with the yield between them, and those
\* calls are complete before the next report: in the call order every first
\* filter call of an iteration directly follows that iteration's report,
\* every later report directly follows the three filter calls of the
\* iteration before, and a suspended run has reported the iteration it is
\* about to compute and has not started computing it.
C4_ReportBeforeCompute ==
  \A r \in Runs :
    Started(r) =>
      LET t == trace[r]
          n == args[r].params.iterations
      IN  /\ \A j \in 1..Len(t) :
               /\ (IsFilter(t[j]) /\ t[j].ch = "r") =>
                    /\ j > 1
                    /\ t[j - 1] = ProgressEvent(t[j].iter, ProgressValue(t[j].iter, n))
               /\ (IsFilter(t[j]) /\ t[j].ch = "g") => (j > 1 /\ t[j - 1] = FilterEvent(t[j].iter, "r"))
               /\ (IsFilter(t[j]) /\ t[j].ch = "b") => (j > 1 /\ t[j - 1] = FilterEvent(t[j].iter, "g"))
               /\ (IsProgress(t[j]) /\ j > 1) =>
                    /\ t[j].iter >= 1
                    /\ t[j - 1] = FilterEvent(t[j].iter - 1, "b")
               /\ (IsProgress(t[j]) /\ j = 1) => t[j].iter = 0
          /\ pc[r] = "timer" =>
               /\ t[Len(t)] = ProgressEvent(iter[r], ProgressValue(iter[r], n))
               /\ \A j \in 1..Len(t) : IsFilter(t[j]) => t[j].iter < iter[r]
          /\ pc[r] = "fulfilled" =>
               \A k \in 0..(n - 1), ch \in {"r", "g", "b"} :
                  \E j \in 1..Len(t) : t[j] = FilterEvent(k, ch)

C4_Witness ==
  \E r \in Runs :
    /\ pc[r] = "timer"
    /\ iter[r] = 1
    /\ args[r].params.iterations = 2
    /\ trace[r] = <<ProgressEvent(0, Zero), FilterEvent(0, "r"), FilterEvent(0, "g"),
                    FilterEvent(0, "b"), ProgressEvent(1, Rat(50, 1))>>

(***************************************************************************)
(* SpecPair: two runs of applyMutualStructureFilter, each on its own       *)
(* input, started in any order and interleaved at their awaits.            *)
(***************************************************************************)
\* Runs of zero, one and two iterations at radius 1, of one at radius 0.
PairParams ==
  [radius : {1}, epsilon : {ValidEpsilon}, iterations : 0..Min(MaxIterations, 2)]
    \cup [radius : {0}, epsilon : {ValidEpsilon}, iterations : {1}]

\* Targets of the largest width, so that striped guidance is not flat.
PairDims == {d \in ImageDims \X ImageDims : d[1] = MaxImage}

PairGuidance(w, h) == {FlatGuidance(w, h), StripedGuidance(w, h)}

StartPair ==
  \E r \in Runs :
    /\ pc[r] = "idle"
    /\ \E d \in PairDims, prm \in PairParams :
         \E guidance \in PairGuidance(d[1], d[2]) :
            Call(r, TargetImage(d[1], d[2]), guidance, prm)
    /\ UNCHANGED appVars

ResumePair == \E r \in Runs : TimerFire(r) /\ UNCHANGED appVars

NextPair == StartPair \/ ResumePair
SpecPair == Init /\ [][NextPair]_vars

\* The working planes of a run called alone with arguments a, after k
\* iterations of its loop.
RECURSIVE SoloPlanes(_, _)
SoloPlanes(a, k) ==
  IF k = 0 THEN [r |-> a.target.r, g |-> a.target.g, b |-> a.target.b]
  ELSE LET prev == SoloPlanes(a, k - 1)
           w == a.target.width
           h == a.target.height
           gI == Grayscale(a.guidance, w, h)
       IN  [r |-> guidedFilterChannel(prev.r, gI, w, h, a.params.radius, a.params.epsilon),
            g |-> guidedFilterChannel(prev.g, gI, w, h, a.params.radius, a.params.epsilon),
            b |-> guidedFilterChannel(prev.b, gI, w, h, a.params.radius, a.params.epsilon)]

\* The values a run called alone has reported when its loop counter is k.
SoloLog(a, k) ==
  [i \in 1..(k + 1) |->
     IF i - 1 < a.params.iterations THEN ProgressValue(i - 1, a.params.iterations)
     ELSE Hundred]

\* C11: two runs started concurrently on their own inputs and interleaved in
\* any order at their awaits do not interfere: at every point each run has
\* the working planes and the progress log it has when run alone with the
\* same arguments, and it returns the result it returns when run alone.
C11_RunsIndependent ==
  \A r \in Runs :
    Started(r) =>
      LET a == args[r]
          n == a.params.iterations
          solo == SoloPlanes(a, iter[r])
      IN  /\ iter[r] <= n
          /\ pc[r] = (IF iter[r] < n THEN "timer" ELSE "fulfilled")
          /\ current[r] = solo
          /\ progressLog[r] = SoloLog(a, iter[r])
          /\ pc[r] = "fulfilled" =>
               /\ iter[r] = n
               /\ result[r] = [r |-> solo.r, g |-> solo.g, b |-> solo.b,
                               width |-> a.target.width, height |-> a.target.height]

\* Both runs are suspended in the middle of their loops, on different
\* targets and different guidance.
C11_Witness ==
  /\ pc[1] = "timer" /\ pc[2] = "timer"
  /\ iter[1] = 1 /\ iter[2] = 1
  /\ args[1].target # args[2].target
  /\ args[1].guidance.r # args[2].guidance.r
  /\ args[1].params.radius = 1 /\ args[2].params.radius = 1
  /\ current[1].r # args[1].target.r
  /\ current[2].r # args[2].target.r

(***************************************************************************)
(* The App component (App.tsx).  One action per event handler and per      *)
(* run-to-completion segment of handleProcess: the click (to the await of  *)
(* line 44), the images' load or failure (to the first await inside        *)
(* applyMutualStructureFilter), every timer of the run (the last one runs  *)
(* on through lines 74-82), and the settling of the explanation.  State    *)
(* updates take effect when they are made.                                 *)
(***************************************************************************)
\* A data URL is the image it encodes; ok is FALSE for a file that no
\* Image element can decode.
DataURL(w, h, data) == [ok |-> TRUE, width |-> w, height |-> h, data |-> data]
BrokenFile == [ok |-> FALSE, width |-> 0, height |-> 0, data |-> <<>>]

White == <<255, 255, 255, 255>>
Black == <<0, 0, 0, 255>>

\* The files the user picks.  Guidance files are of one colour, so that
\* drawing them scaled to the target's size does not depend on the
\* browser's resampling.
TargetFiles == {DataURL(2, 1, White \o Black), DataURL(1, 1, White), BrokenFile}
GuidanceFiles == {DataURL(1, 1, White), DataURL(2, 1, Black \o Black)}

\* Slider positions: the default and one other position of each slider.
RadiusInputs == {DefaultParams.radius, 1}
EpsilonInputs == {DefaultParams.epsilon, Rat(1, 20)}
IterationInputs == {DefaultParams.iterations, 1}

\* App.tsx:54-59: the target drawn on a canvas of its own size
DrawImage(img) == [width |-> img.width, height |-> img.height, data |-> img.data]

\* App.tsx:63-65: an image of one colour drawn scaled to w x h
DrawScaled(img, w, h) ==
  [width |-> w, height |-> h,
   data |-> [k \in 1..(w * h * 4) |-> img.data[((k - 1) % 4) + 1]]]

\* The number a binary32 sample holds.
ToNumber(x) == Rat(x[1], Pow2(x[2]))

PlaneSet(rgb) ==
  [r |-> [i \in 1..Len(rgb.r) |-> ToNumber(rgb.r[i])],
   g |-> [i \in 1..Len(rgb.g) |-> ToNumber(rgb.g[i])],
   b |-> [i \in 1..Len(rgb.b) |-> ToNumber(rgb.b[i])],
   width |-> rgb.width, height |-> rgb.height]

\* Long division of rem/den continued from the quotient q until q has 24
\* significant bits, then round to nearest, ties to even.
RECURSIVE F32Div(_, _, _, _)
F32Div(q, rem, den, e) ==
  IF q >= Pow2(23)
  THEN IF 2 * rem > den \/ (2 * rem = den /\ q % 2 = 1)
       THEN (IF q + 1 = Pow2(24) THEN <<Pow2(23), e - 1>> ELSE <<q + 1, e>>)
       ELSE <<q, e>>
  ELSE F32Div(2 * q + (IF 2 * rem >= den THEN 1 ELSE 0), (2 * rem) % den, den, e + 1)

\* filters.ts:85-88: a number stored into the Float32Array the filter
\* returns.  NaN and numbers that are not positive are stored as samples
\* that combineRGB turns into the byte 0, as it does with them.
ToFloat32(x) ==
  IF ~IsFinite(x) \/ x[1] <= 0 THEN <<Min(x[1], 0), 0>>
  ELSE F32Div(x[1] \div x[2], x[1] % x[2], x[2], 0)

Float32Planes(res) ==
  [r |-> [i \in 1..Len(res.r) |-> ToFloat32(res.r[i])],
   g |-> [i \in 1..Len(res.g) |-> ToFloat32(res.g[i])],
   b |-> [i \in 1..Len(res.b) |-> ToFloat32(res.b[i])],
   width |-> res.width, height |-> res.height]

\* App.tsx:77
DoneStatus == [isProcessing |-> FALSE, progress |-> Hundred, error |-> NoError]

\* App.tsx:93
FailedStatus ==
  [isProcessing |-> FALSE, progress |-> Zero,
   error |-> "Image processing failed. Ensure images are valid."]

\* Mutant of ExplanationCaught: the explanation's failure reaches the catch
\* of line 91.
ExplanationUncaught(h, a, how) ==
  /\ app' = [a EXCEPT !.status = FailedStatus]
  /\ handlers' = [handlers EXCEPT ![h].pc = "failed", ![h].explanation = how]

\* App.tsx:80-89: the explanation failed (how: "threw" in the constructor,
\* "rejected" by explainMutualStructure) with the component's state a; the
\* inner catch logs a warning.
ExplanationCaught(h, a, how) ==
  /\ app' = a
  /\ handlers' = [handlers EXCEPT ![h].pc = "done", ![h].explanation = how]

\* App.tsx:76-77: setResultImage and setStatus; resultFrom records the images
\* the invocation read.
StoreResult(h, a, url) ==
  [a EXCEPT !.resultImage = url,
            !.resultFrom = [target |-> handlers[h].targetImage,
                            guidance |-> handlers[h].guidanceImage],
            !.status = DoneStatus]

\* App.tsx:69-89: what handleProcess does in a segment of run h: the
\* onProgress callback for every value reported, and, when the run is
\* fulfilled, lines 74-82.
Continue(h) ==
  LET reported == progressLog'[h]
      st == IF Len(reported) > Len(progressLog[h])
            THEN [app.status EXCEPT !.progress = reported[Len(reported)]]
            ELSE app.status
  IN  IF pc'[h] # "fulfilled"
      THEN /\ app' = [app EXCEPT !.status = st]
           /\ handlers' = [handlers EXCEPT ![h].pc = "filtering"]
      ELSE LET resultData == combineRGB(Float32Planes(result'[h]))
               url == DataURL(resultData.width, resultData.height, resultData.data)
               stored == StoreResult(h, [app EXCEPT !.status = st], url)
           IN  \/ ExplanationCaught(h, stored, "threw")
               \/ /\ app' = stored
                  /\ handlers' = [handlers EXCEPT ![h].pc = "explaining",
                                                  ![h].explanation = "pending"]

\* App.tsx:26-47, by the button of lines 199-202 (enabled with both images
\* and no processing, so the check of line 27 passes).  Invocations take
\* their ids in order.
HandleProcess(h) ==
  /\ handlers[h].pc = "idle"
  /\ \A g \in Runs : g < h => handlers[g].pc # "idle"
  /\ ~app.status.isProcessing
  /\ app.targetImage # None
  /\ app.guidanceImage # None
  /\ app' = [app EXCEPT !.status = [isProcessing |-> TRUE, progress |-> Zero, error |-> NoError]]
  /\ handlers' = [handlers EXCEPT ![h] =
                    [pc |-> "loading", targetImage |-> app.targetImage,
                     guidanceImage |-> app.guidanceImage, params |-> app.params,
                     explanation |-> "none"]]
  /\ UNCHANGED <<fnVars, runVars>>

\* App.tsx:44-71: both images have loaded.
ImagesLoaded(h) ==
  /\ handlers[h].pc = "loading"
  /\ handlers[h].targetImage.ok
  /\ handlers[h].guidanceImage.ok
  /\ LET targetData == DrawImage(handlers[h].targetImage)
         guidanceData == DrawScaled(handlers[h].guidanceImage, targetData.width, targetData.height)
     IN  Call(h, PlaneSet(extractRGB(targetData)), PlaneSet(extractRGB(guidanceData)),
              handlers[h].params)
  /\ Continue(h)

\* App.tsx:44-47 and 91-94: an image fails to load.
ImagesFailed(h) ==
  /\ handlers[h].pc = "loading"
  /\ ~handlers[h].targetImage.ok \/ ~handlers[h].guidanceImage.ok
  /\ app' = [app EXCEPT !.status = FailedStatus]
  /\ handlers' = [handlers EXCEPT ![h].pc = "failed"]
  /\ UNCHANGED <<fnVars, runVars>>

\* App.tsx:69-82: a timer of run h fires.
RunTimer(h) ==
  /\ handlers[h].pc = "filtering"
  /\ TimerFire(h)
  /\ Continue(h)

\* App.tsx:82-86
ExplanationResolved(h) ==
  /\ handlers[h].pc = "explaining"
  /\ app' = [app EXCEPT !.aiExplanation = "explanation"]
  /\ handlers' = [handlers EXCEPT ![h].pc = "done", ![h].explanation = "resolved"]
  /\ UNCHANGED <<fnVars, runVars>>

\* App.tsx:82 and 87-89
ExplanationRejected(h) ==
  /\ handlers[h].pc = "explaining"
  /\ ExplanationCaught(h, app, "rejected")
  /\ UNCHANGED <<fnVars, runVars>>

\* ImagePicker.tsx:14-25 and App.tsx:140
SelectTarget(file) ==
  /\ app' = [app EXCEPT !.targetImage = file, !.resultImage = None, !.resultFrom = None]
  /\ UNCHANGED <<handlers, fnVars, runVars>>

\* ImagePicker.tsx:14-25 and App.tsx:146
SelectGuidance(file) ==
  /\ app' = [app EXCEPT !.guidanceImage = file, !.resultImage = None, !.resultFrom = None]
  /\ UNCHANGED <<handlers, fnVars, runVars>>

\* App.tsx:115-123
ResetSession ==
  /\ ~app.status.isProcessing
  /\ app' = [app EXCEPT !.targetImage = None, !.guidanceImage = None, !.resultImage = None,
                        !.resultFrom = None, !.aiExplanation = None, !.status = IdleStatus]
  /\ UNCHANGED <<handlers, fnVars, runVars>>

\* App.tsx:167, 180, 193
SetRadius(v) ==
  /\ app' = [app EXCEPT !.params.radius = v]
  /\ UNCHANGED <<handlers, fnVars, runVars>>

SetEpsilon(v) ==
  /\ app' = [app EXCEPT !.params.epsilon = v]
  /\ UNCHANGED <<handlers, fnVars, runVars>>

SetIterations(v) ==
  /\ app' = [app EXCEPT !.params.iterations = v]
  /\ UNCHANGED <<handlers, fnVars, runVars>>

\* A behaviour of SpecApp holds one invocation of handleProcess, run by the
\* user's events in any order.
Process == \E h \in SingleRun : HandleProcess(h)
Loaded == \E h \in SingleRun : ImagesLoaded(h)
LoadFailed == \E h \in SingleRun : ImagesFailed(h)
Timer == \E h \in SingleRun : RunTimer(h)
Explained == \E h \in SingleRun : ExplanationResolved(h)
ExplainFailed == \E h \in SingleRun : ExplanationRejected(h)
PickTarget == \E file \in TargetFiles : SelectTarget(file)
PickGuidance == \E file \in GuidanceFiles : SelectGuidance(file)
Sliders ==
  \/ \E v \in RadiusInputs : SetRadius(v)
  \/ \E v \in EpsilonInputs : SetEpsilon(v)
  \/ \E v \in IterationInputs : SetIterations(v)

NextApp ==
  \/ Process \/ Loaded \/ LoadFailed \/ Timer \/ Explained \/ ExplainFailed
  \/ PickTarget \/ PickGuidance \/ ResetSession \/ Sliders

SpecApp == Init /\ [][NextApp]_vars

\* C12: a failure of the explanation (the constructor throwing, or
\* explainMutualStructure rejecting) after the filter has completed never
\* marks the operation as failed: the invocation ends in "done" and never in
\* the catch of line 91; when the constructor throws, the status is the one
\* line 77 has just set (no error, progress 100, not processing) and the
\* result is stored; when the call rejects, the status and the stored result
\* image are left as they are.
C12_ExplanationFailureIgnored ==
  [][\A h \in Runs :
       (handlers'[h].explanation \in {"threw", "rejected"}
          /\ handlers[h].explanation \notin {"threw", "rejected"}) =>
         /\ pc[h] = "fulfilled" \/ pc'[h] = "fulfilled"
         /\ handlers'[h].pc = "done"
         /\ IF handlers'[h].explanation = "threw"
            THEN /\ app'.status = DoneStatus
                 /\ app'.resultImage # None
            ELSE /\ app'.status = app.status
                 /\ app'.resultImage = app.resultImage
                 /\ app'.resultFrom = app.resultFrom]_vars

\* The explanation of the first invocation was rejected: the status is the
\* one of a completed operation and the result is stored.
C12_Witness ==
  /\ handlers[1].pc = "done"
  /\ handlers[1].explanation = "rejected"
  /\ pc[1] = "fulfilled"
  /\ app.status = DoneStatus
  /\ app.resultImage # None
  /\ app.aiExplanation = None

(***************************************************************************)
(* Claims about the planes of a run (checked under Spec).                  *)
(***************************************************************************)
\* guidedFilterChannel applied n times to P against the guidance plane I.
RECURSIVE NFold(_, _, _, _, _, _, _)
NFold(P, I, width, height, r, eps, n) ==
  IF n <= 0 THEN P
  ELSE guidedFilterChannel(NFold(P, I, width, height, r, eps, n - 1), I, width, height, r, eps)

PlanesAfter(r, n) ==
  LET a == args[r]
      w == a.target.width
      h == a.target.height
  IN  [r |-> NFold(a.target.r, grayI[r], w, h, a.params.radius, a.params.epsilon, n),
       g |-> NFold(a.target.g, grayI[r], w, h, a.params.radius, a.params.epsilon, n),
       b |-> NFold(a.target.b, grayI[r], w, h, a.params.radius, a.params.epsilon, n)]

GuidanceFixed ==
  \A r \in Runs :
    Started(r) =>
      grayI[r] = Grayscale(args[r].guidance, args[r].target.width, args[r].target.height)

PlanesEvolve ==
  \A r \in Runs :
    Started(r) =>
      /\ current[r] = PlanesAfter(r, iter[r])
      /\ pc[r] = "fulfilled" =>
           LET final == PlanesAfter(r, args[r].params.iterations)
           IN  /\ result[r].r = final.r
               /\ result[r].g = final.g
               /\ result[r].b = final.b

InputsKept ==
  \A r \in Runs :
    Started(r) => (args'[r] = args[r] /\ grayI'[r] = grayI[r])

\* C13: the grayscale guidance plane of a run is the one derived from the
\* guidance PlaneSet at the call and no step of the run changes it; after k
\* iterations each working plane is guidedFilterChannel applied k times to
\* the target's channel against that plane, and the result of a run of N
\* iterations is the N-fold application; no step of the run changes the
\* caller's target and guidance.
C13_GuidanceFixedPlanesEvolve ==
  /\ [](GuidanceFixed /\ PlanesEvolve)
  /\ [][InputsKept]_vars

\* A finished run of two iterations at radius 1 under striped guidance:
\* the second iteration changed the red plane again.
C13_Witness ==
  \E r \in Runs :
    /\ pc[r] = "fulfilled"
    /\ args[r].params.iterations = 2
    /\ args[r].params.radius = 1
    /\ ~IsConstant(grayI[r])
    /\ result[r].r # args[r].target.r
    /\ result[r].r # PlanesAfter(r, 1).r
    /\ args[r].guidance.r = StripePlane(args[r].target.width, args[r].target.height)

(***************************************************************************)
(* SpecLive: Spec with every timer of line 145 eventually firing.          *)
(***************************************************************************)
\* The timer of a suspended run fires: the step of Resume, told by the loop
\* counter it advances.  Under Next a step from a state with pc = "timer"
\* that changes iter is a Resume step and every Resume step is one, so
\* fairness of TimerFires is fairness of Resume.
TimerFires == \E r \in SingleRun : pc[r] = "timer" /\ iter' = [iter EXCEPT ![r] = iter[r] + 1]

SpecLive == Init /\ [][Next]_vars /\ WF_iter(TimerFires)

ValidRun(r) ==
  /\ Started(r)
  /\ ~InvalidParameter(args[r].params)
  /\ ~DimensionMismatch(args[r].target, args[r].guidance)

FilterCalls(r) == {j \in 1..Len(trace[r]) : IsFilter(trace[r][j])}

Done(r) ==
  /\ pc[r] = "fulfilled"
  /\ iter[r] = args[r].params.iterations
  /\ Cardinality(FilterCalls(r)) = 3 * args[r].params.iterations
  /\ progressLog[r][Len(progressLog[r])] = Hundred
  /\ result[r].width = args[r].target.width
  /\ result[r].height = args[r].target.height
  /\ Len(result[r].r) = args[r].target.width * args[r].target.height
  /\ Len(result[r].g) = Len(result[r].r)
  /\ Len(result[r].b) = Len(result[r].r)

\* C14: when every timer a run schedules eventually fires, a run started
\* with iterations >= 1, radius >= 0, epsilon > 0 and a guidance of the
\* target's size eventually is fulfilled, having reported 100 and made
\* exactly `iterations` iterations, with a result of the target's width and
\* height; it does not stay suspended in its loop for ever.
C14_EventuallyDone == \A r \in Runs : ValidRun(r) ~> Done(r)

\* A valid run of three iterations on a 2 x 2 target is done.
C14_Witness ==
  \E r \in Runs :
    /\ ValidRun(r) /\ Done(r)
    /\ args[r].params.iterations = 3
    /\ args[r].target.width = 2 /\ args[r].target.height = 2
    /\ Len(trace[r]) = 13

(***************************************************************************)
(* Claims about the displayed result (checked under SpecApp).              *)
(***************************************************************************)
\* C15: whenever a result image is stored (resultImage is not null) it was
\* computed from the target and guidance images that are selected now.
C15_ResultMatchesSelection ==
  app.resultImage # None =>
    /\ app.resultFrom.target = app.targetImage
    /\ app.resultFrom.guidance = app.guidanceImage

====
